---- MODULE Spec2Model ----
(***************************************************************************)
(* Model of the Promtior RAG service: the sitemap loader and ingestion run *)
(* of app/ingester.py, the cached resource factories of app/config.py, and *)
(* the two-node retrieve -> generate graph of app/agent.py, app/nodes.py.  *)
(*                                                                         *)
(* Python strings are sequences of one-character strings, so that split,   *)
(* lower, endswith, strip and substring tests are computed, not assumed.   *)
(***************************************************************************)
EXTENDS Integers, Sequences, FiniteSets, TLC

VARIABLES
    \* ---- _load_sitemap (app/ingester.py) ----
    lpc,          \* position in _load_sitemap: "start", "loop", "done"
    sitemapLocs,  \* the <loc> entries of the sitemap XML, in document order
    source_type,  \* the source_type argument
    urls,         \* the list returned by _extract_urls_from_sitemap
    li,           \* index of the next entry of urls the for loop visits
    cleaned,      \* the list of Documents built so far
    log,          \* per visited entry: GETs issued, response seen, text returned
    \* ---- run_ingestion (app/ingester.py) ----
    ipc,          \* position in run_ingestion
    run,          \* number of the current run_ingestion call
    all_docs,     \* number of Documents loaded by the current run
    chunks,       \* chunks of the current run
    batch_size,   \* batch_size argument of _embed_in_batches
    bi,           \* loop variable i of _embed_in_batches
    vector_store, \* the in-memory FAISS store of the current run
    embedded,     \* chunks sent to the embedding API by the current run, in order
    persisted,    \* content of the directory INDEX_PATH (NoIndex when absent)
    outcome,      \* how the current run ended
    errorLogged,  \* logger.error was called by the current run
    \* ---- serving process (app/config.py, app/nodes.py, app/agent.py) ----
    started,      \* app.agent has been imported (create_agent has run)
    apiKeySet,    \* Config.OPENAI_API_KEY is non-empty
    cache,        \* lru_cache content of get_llm, get_embeddings, get_retriever
    built,        \* number of constructions of each resource
    req           \* per request: program counter and AgentState

loadVars   == <<lpc, sitemapLocs, source_type, urls, li, cleaned, log>>
ingestVars == <<ipc, run, all_docs, chunks, batch_size, bi, vector_store,
                embedded, persisted, outcome, errorLogged>>
ingestRest == <<ipc, run, all_docs, chunks, batch_size, bi, vector_store,
                embedded, outcome, errorLogged>>
serveVars  == <<started, apiKeySet, cache, built, req>>
vars       == <<loadVars, ingestVars, serveVars>>

-----------------------------------------------------------------------------
(* Python str operations *)

Upper == <<"A", "B", "C", "D", "E", "F", "G", "H", "I", "J", "K", "L", "M",
           "N", "O", "P", "Q", "R", "S", "T", "U", "V", "W", "X", "Y", "Z">>
LowerAlpha == <<"a", "b", "c", "d", "e", "f", "g", "h", "i", "j", "k", "l", "m",
                "n", "o", "p", "q", "r", "s", "t", "u", "v", "w", "x", "y", "z">>

\* The lower-case letter of each upper-case letter.
LowerOf == [c \in {Upper[k] : k \in 1..26} |->
               LowerAlpha[CHOOSE k \in 1..26 : Upper[k] = c]]

LowerChar(c) == IF c \in DOMAIN LowerOf THEN LowerOf[c] ELSE c

\* str.lower()
Lower(s) == [k \in 1..Len(s) |-> LowerChar(s[k])]

\* s.split(d)[0] for a one-character separator d
SplitFirst(s, d) ==
    IF \E k \in 1..Len(s) : s[k] = d
    THEN SubSeq(s, 1, (CHOOSE k \in 1..Len(s) :
                          s[k] = d /\ \A j \in 1..(k - 1) : s[j] # d) - 1)
    ELSE s

\* s.split(d)[-1] for a one-character separator d
SplitLast(s, d) ==
    IF \E k \in 1..Len(s) : s[k] = d
    THEN SubSeq(s, (CHOOSE k \in 1..Len(s) :
                       s[k] = d /\ \A j \in (k + 1)..Len(s) : s[j] # d) + 1, Len(s))
    ELSE s

\* s.endswith(suffix)
EndsWith(s, suffix) ==
    /\ Len(suffix) <= Len(s)
    /\ SubSeq(s, Len(s) - Len(suffix) + 1, Len(s)) = suffix

\* sub in s
Contains(s, sub) ==
    \E k \in 0..(Len(s) - Len(sub)) : SubSeq(s, k + 1, k + Len(sub)) = sub

Whitespace == {" ", "\n", "\t", "\r"}

\* str.strip()
Strip(s) ==
    IF \A k \in 1..Len(s) : s[k] \in Whitespace
    THEN <<>>
    ELSE LET first == CHOOSE k \in 1..Len(s) :
                         s[k] \notin Whitespace /\ \A j \in 1..(k - 1) : s[j] \in Whitespace
             last  == CHOOSE k \in 1..Len(s) :
                         s[k] \notin Whitespace /\ \A j \in (k + 1)..Len(s) : s[j] \in Whitespace
         IN  SubSeq(s, first, last)

RECURSIVE Join(_, _)
\* sep.join(parts)
Join(sep, parts) ==
    IF parts = <<>> THEN <<>>
    ELSE IF Len(parts) = 1 THEN parts[1]
    ELSE parts[1] \o sep \o Join(sep, Tail(parts))

-----------------------------------------------------------------------------
(* app/ingester.py: URL filters *)

_STATIC_EXTENSIONS == {
    <<".", "j", "p", "g">>, <<".", "j", "p", "e", "g">>, <<".", "p", "n", "g">>,
    <<".", "g", "i", "f">>, <<".", "s", "v", "g">>, <<".", "w", "e", "b", "p">>,
    <<".", "i", "c", "o">>,
    <<".", "m", "p", "4">>, <<".", "m", "p", "3">>, <<".", "w", "a", "v">>,
    <<".", "a", "v", "i">>,
    <<".", "p", "d", "f">>, <<".", "z", "i", "p">>, <<".", "g", "z">>,
    <<".", "t", "a", "r">>,
    <<".", "c", "s", "s">>, <<".", "j", "s">>, <<".", "w", "o", "f", "f">>,
    <<".", "w", "o", "f", "f", "2">>, <<".", "t", "t", "f">>, <<".", "e", "o", "t">> }

SKIP_URL_PATTERNS == {
    <<"p", "o", "l", "i", "t", "i", "c", "a", "-", "d", "e", "-", "p", "r", "i", "v", "a", "c", "i", "d", "a", "d">>,
    <<"p", "r", "i", "v", "a", "c", "y", "-", "p", "o", "l", "i", "c", "y">>,
    <<"t", "e", "r", "m", "s", "-", "o", "f", "-", "s", "e", "r", "v", "i", "c", "e">>,
    <<"c", "o", "n", "t", "a", "c", "t", "-", "u", "s">>,
    <<"c", "o", "n", "t", "a", "c", "t", "o">>,
    <<"e", "r", "r", "o", "r", "e", "n", "e", "l", "p", "a", "g", "o">>,
    <<"g", "r", "a", "c", "i", "a", "s", "p", "o", "r", "t", "u", "c", "o", "m", "p", "r", "a">>,
    <<"w", "e", "b", "i", "n", "a", "r", "-", "r", "e", "g", "i", "s", "t", "r", "a", "t", "i", "o", "n">>,
    <<"p", "r", "e", "l", "a", "n", "z", "a", "m", "i", "e", "n", "t", "o">>,
    <<"d", "o", "w", "n", "l", "o", "a", "d", "-", "w", "h", "i", "t", "e", "-", "p", "a", "p", "e", "r">>,
    <<"m", "e", "e", "t", "-", "p", "r", "o", "m", "t", "i", "o", "r">>,
    <<"e", "b", "o", "o", "k", "-", "o", "r", "g", "a", "n", "i", "z", "a", "c", "i", "o", "n", "e", "s">>,
    <<"t", "h", "a", "n", "k", "-", "y", "o", "u">>,
    <<"4", "0", "4">> }

_MIN_TEXT_LENGTH == 200

\* _is_static_asset without the .lower() call
IsStaticAssetCaseSensitive(url) ==
    LET path == SplitFirst(SplitFirst(url, "?"), "#")
    IN  \E ext \in _STATIC_EXTENSIONS : EndsWith(path, ext)

_is_static_asset(url) ==
    LET path == Lower(SplitFirst(SplitFirst(url, "?"), "#"))
    IN  \E ext \in _STATIC_EXTENSIONS : EndsWith(path, ext)

_should_skip(url) ==
    IF _is_static_asset(url) THEN TRUE
    ELSE \E p \in SKIP_URL_PATTERNS : Contains(url, p)

-----------------------------------------------------------------------------
(* app/ingester.py: _extract_urls_from_sitemap, _fetch_page, _load_sitemap *)

MaxUrls == 2

TextHtml == <<"t", "e", "x", "t", "/", "h", "t", "m", "l">>
Home     == <<"h", "o", "m", "e">>

\* URLs a sitemap may list: pages, static assets (upper-case extension, query
\* string, fragment), an extension inside the query only, a skip-pattern URL.
UrlPool == {
    <<"/", "a", "b", "o", "u", "t">>,
    <<"/", "b", "l", "o", "g", "/">>,
    <<"/", "l", "o", "g", "o", ".", "P", "N", "G">>,
    <<"/", "a", ".", "j", "s", "?", "v", "=", "1">>,
    <<"/", "f", ".", "c", "s", "s", "#", "t", "o", "p">>,
    <<"/", "d", "l", "?", "f", "=", "x", ".", "z", "i", "p">>,
    <<"/", "c", "o", "n", "t", "a", "c", "t", "o">> }

\* _should_skip computed once for each URL of the pool.
SkipTable == [u \in UrlPool |-> _should_skip(u)]
Skipped(url) == SkipTable[url]

\* Content-Type header values; <<>> is the default of headers.get when absent.
ContentTypes == {
    <<"t", "e", "x", "t", "/", "h", "t", "m", "l", ";", " ", "c", "h", "a", "r", "s", "e", "t", "=", "u", "t", "f", "-", "8">>,
    <<"i", "m", "a", "g", "e", "/", "p", "n", "g">>,
    <<>> }

\* Lengths of the text _parse_page extracts from a response body.
ParsedLengths == {0, _MIN_TEXT_LENGTH - 1, _MIN_TEXT_LENGTH}

\* requests.get raised RequestException, or raise_for_status did.
FailedResponse == [ok |-> FALSE, ctype |-> <<>>, parsed |-> 0]

\* What one requests.get of a page URL can produce.
Responses ==
    {FailedResponse} \cup
    {[ok |-> TRUE, ctype |-> c, parsed |-> n] : c \in ContentTypes, n \in ParsedLengths}

\* Log entry of a sitemap entry the loop skipped without fetching.
NotFetched == [gets |-> 0, resp |-> FailedResponse, text |-> 0]

RECURSIVE SeqsUpTo(_, _)
SeqsUpTo(S, n) ==
    IF n = 0 THEN {<<>>}
    ELSE LET shorter == SeqsUpTo(S, n - 1)
         IN  shorter \cup {Append(s, x) : s \in {t \in shorter : Len(t) = n - 1}, x \in S}

\* _fetch_page that parses whatever body came back (no raise_for_status,
\* no Content-Type test)
FetchPageUnchecked(resp) == IF resp.ok THEN resp.parsed ELSE _MIN_TEXT_LENGTH

\* _fetch_page: length of the cleaned text it returns for a response
_fetch_page(resp) ==
    IF ~resp.ok THEN 0
    ELSE IF ~Contains(resp.ctype, TextHtml) THEN 0
    ELSE resp.parsed

\* The Document built for a kept page (page_content is kept as its length).
Document(url, text, stype) ==
    [source      |-> url,
     source_type |-> stype,
     title       |-> IF SplitLast(url, "/") = <<>> THEN Home ELSE SplitLast(url, "/"),
     length      |-> text]

\* One iteration of the for loop of _load_sitemap that drops nothing
LoopBodyKeepAll(docs, url, resp, stype) ==
    IF Skipped(url) THEN docs
    ELSE Append(docs, Document(url, _fetch_page(resp), stype))

\* One iteration of the for loop of _load_sitemap: the new value of cleaned.
LoopBody(docs, url, resp, stype) ==
    IF Skipped(url) THEN docs
    ELSE IF _fetch_page(resp) < _MIN_TEXT_LENGTH THEN docs
    ELSE Append(docs, Document(url, _fetch_page(resp), stype))

\* What the iteration records: GETs issued, the response, the text returned.
LoopLog(url, resp) ==
    IF Skipped(url) THEN NotFetched
    ELSE [gets |-> 1, resp |-> resp, text |-> _fetch_page(resp)]

\* _extract_urls_from_sitemap succeeds: every <loc> of the XML, in order.
ExtractUrls ==
    /\ lpc = "start"
    /\ urls' = sitemapLocs
    /\ lpc' = "loop"
    /\ UNCHANGED <<sitemapLocs, source_type, li, cleaned, log>>
    /\ UNCHANGED <<ingestVars, serveVars>>

\* _extract_urls_from_sitemap catches RequestException and returns [].
ExtractUrlsFails ==
    /\ lpc = "start"
    /\ urls' = <<>>
    /\ lpc' = "loop"
    /\ UNCHANGED <<sitemapLocs, source_type, li, cleaned, log>>
    /\ UNCHANGED <<ingestVars, serveVars>>

\* One iteration of `for url in urls` on a filtered URL: continue.
LoopSkip ==
    /\ lpc = "loop"
    /\ li <= Len(urls)
    /\ Skipped(urls[li])
    /\ cleaned' = LoopBody(cleaned, urls[li], FailedResponse, source_type)
    /\ log' = Append(log, LoopLog(urls[li], FailedResponse))
    /\ li' = li + 1
    /\ UNCHANGED <<lpc, sitemapLocs, source_type, urls>>
    /\ UNCHANGED <<ingestVars, serveVars>>

\* One iteration of `for url in urls` that fetches the page.
LoopFetch ==
    /\ lpc = "loop"
    /\ li <= Len(urls)
    /\ ~Skipped(urls[li])
    /\ \E resp \in Responses :
          /\ cleaned' = LoopBody(cleaned, urls[li], resp, source_type)
          /\ log' = Append(log, LoopLog(urls[li], resp))
    /\ li' = li + 1
    /\ UNCHANGED <<lpc, sitemapLocs, source_type, urls>>
    /\ UNCHANGED <<ingestVars, serveVars>>

\* The loop is exhausted: return cleaned.
LoadReturn ==
    /\ lpc = "loop"
    /\ li > Len(urls)
    /\ lpc' = "done"
    /\ UNCHANGED <<sitemapLocs, source_type, urls, li, cleaned, log>>
    /\ UNCHANGED <<ingestVars, serveVars>>

LoadNext ==
    \/ ExtractUrls
    \/ ExtractUrlsFails
    \/ LoopSkip
    \/ LoopFetch
    \/ LoadReturn

-----------------------------------------------------------------------------
(* app/ingester.py: run_ingestion, _load_pdf, _embed_in_batches *)

MaxRuns == 2
_EMBED_BATCH_SIZE == 50

\* Numbers of Documents a loader may return.
DocCounts == {0, 1, 2}

\* Numbers of chunks split_documents may return: none, fewer than one batch,
\* exactly one batch, one more than a batch, more than two batches.
ChunkCounts == {0, 1, _EMBED_BATCH_SIZE, _EMBED_BATCH_SIZE + 1, 2 * _EMBED_BATCH_SIZE + 1}

\* The chunks of run r: chunk k of run r is <<r, k>>.
ChunksOf(r, n) == [k \in 1..n |-> <<r, k>>]

\* chunks[i:j] with Python's clamping of the upper index (0-based i, j)
Slice(s, i, j) == SubSeq(s, i + 1, IF j < Len(s) THEN j ELSE Len(s))

\* Directory INDEX_PATH does not exist. writer is the run that wrote it last.
NoIndex == [exists |-> FALSE, vectors |-> <<>>, writer |-> 0]

\* save_local that adds to the index found on disk
SaveLocalMerging(old, store, r) ==
    [exists |-> TRUE, vectors |-> old.vectors \o store, writer |-> r]

\* vector_store.save_local(Config.INDEX_PATH): the new content of the directory.
SaveLocal(old, store, r) == [exists |-> TRUE, vectors |-> store, writer |-> r]

\* run_ingestion without the `if not all_docs` guard
NoDocsNeverAborts(n) == FALSE

\* `not all_docs`
NoDocs(n) == n = 0

\* Ways a run ends by an uncaught exception.
IngestErrors == {"FileNotFoundError", "IndexError", "EmbeddingError"}

\* run_ingestion is called; the two sitemaps and the PDF are loaded.
LoadSources ==
    /\ ipc = "idle"
    /\ run < MaxRuns
    /\ run' = run + 1
    /\ \E pages_docs \in DocCounts, blog_docs \in DocCounts, pdf_docs \in DocCounts :
          all_docs' = pages_docs + blog_docs + pdf_docs
    /\ ipc' = "loaded"
    /\ chunks' = <<>>
    /\ bi' = 0
    /\ vector_store' = <<>>
    /\ embedded' = <<>>
    /\ outcome' = "running"
    /\ errorLogged' = FALSE
    /\ UNCHANGED <<batch_size, persisted>>
    /\ UNCHANGED <<loadVars, serveVars>>

\* run_ingestion is called and _load_pdf raises FileNotFoundError.
LoadPdfRaises ==
    /\ ipc = "idle"
    /\ run < MaxRuns
    /\ run' = run + 1
    /\ all_docs' = 0
    /\ ipc' = "idle"
    /\ chunks' = <<>>
    /\ bi' = 0
    /\ vector_store' = <<>>
    /\ embedded' = <<>>
    /\ outcome' = "FileNotFoundError"
    /\ errorLogged' = FALSE
    /\ UNCHANGED <<batch_size, persisted>>
    /\ UNCHANGED <<loadVars, serveVars>>

\* `if not all_docs`: log the error and return.
AbortEmpty ==
    /\ ipc = "loaded"
    /\ NoDocs(all_docs)
    /\ errorLogged' = TRUE
    /\ outcome' = "returned"
    /\ ipc' = "idle"
    /\ UNCHANGED <<run, all_docs, chunks, batch_size, bi, vector_store, embedded, persisted>>
    /\ UNCHANGED <<loadVars, serveVars>>

\* splitter.split_documents(all_docs)
SplitDocuments ==
    /\ ipc = "loaded"
    /\ ~NoDocs(all_docs)
    /\ \E n \in ChunkCounts : chunks' = ChunksOf(run, IF all_docs = 0 THEN 0 ELSE n)
    /\ ipc' = "embed"
    /\ UNCHANGED <<run, all_docs, batch_size, bi, vector_store, embedded, persisted,
                   outcome, errorLogged>>
    /\ UNCHANGED <<loadVars, serveVars>>

\* FAISS.from_documents(chunks[:batch_size], embeddings): a fresh store holding
\* the first batch; then the range loop starts at i = batch_size.
EmbedFirstBatch ==
    /\ ipc = "embed"
    /\ chunks # <<>>
    /\ vector_store' = Slice(chunks, 0, batch_size)
    /\ embedded' = Slice(chunks, 0, batch_size)
    /\ bi' = batch_size
    /\ ipc' = "loop"
    /\ UNCHANGED <<run, all_docs, chunks, batch_size, persisted, outcome, errorLogged>>
    /\ UNCHANGED <<loadVars, serveVars>>

\* FAISS.from_documents on an empty list raises (it indexes the first embedding).
EmbedEmptyRaises ==
    /\ ipc = "embed"
    /\ chunks = <<>>
    /\ outcome' = "IndexError"
    /\ ipc' = "idle"
    /\ UNCHANGED <<run, all_docs, chunks, batch_size, bi, vector_store, embedded,
                   persisted, errorLogged>>
    /\ UNCHANGED <<loadVars, serveVars>>

\* One iteration of `for i in range(batch_size, len(chunks), batch_size)`.
EmbedNextBatch ==
    /\ ipc = "loop"
    /\ bi < Len(chunks)
    /\ vector_store' = vector_store \o Slice(chunks, bi, bi + batch_size)
    /\ embedded' = embedded \o Slice(chunks, bi, bi + batch_size)
    /\ bi' = bi + batch_size
    /\ UNCHANGED <<ipc, run, all_docs, chunks, batch_size, persisted, outcome, errorLogged>>
    /\ UNCHANGED <<loadVars, serveVars>>

\* The embedding API call of a batch raises; nothing catches it.
EmbedRaises ==
    /\ \/ ipc = "embed" /\ chunks # <<>>
       \/ ipc = "loop" /\ bi < Len(chunks)
    /\ outcome' = "EmbeddingError"
    /\ ipc' = "idle"
    /\ UNCHANGED <<run, all_docs, chunks, batch_size, bi, vector_store, embedded,
                   persisted, errorLogged>>
    /\ UNCHANGED <<loadVars, serveVars>>

\* _embed_in_batches returns; vector_store.save_local(Config.INDEX_PATH).
SaveIndex ==
    /\ ipc = "loop"
    /\ bi >= Len(chunks)
    /\ persisted' = SaveLocal(persisted, vector_store, run)
    /\ outcome' = "saved"
    /\ ipc' = "idle"
    /\ UNCHANGED <<run, all_docs, chunks, batch_size, bi, vector_store, embedded, errorLogged>>
    /\ UNCHANGED <<loadVars, serveVars>>

\* _embed_in_batches called on its own returns vector_store to its caller.
EmbedReturn ==
    /\ ipc = "loop"
    /\ bi >= Len(chunks)
    /\ outcome' = "embedded"
    /\ ipc' = "idle"
    /\ UNCHANGED <<run, all_docs, chunks, batch_size, bi, vector_store, embedded,
                   persisted, errorLogged>>
    /\ UNCHANGED <<loadVars, serveVars>>

\* _embed_in_batches(chunks, batch_size) on any chunk list and batch size.
EmbedNext ==
    \/ EmbedFirstBatch
    \/ EmbedEmptyRaises
    \/ EmbedNextBatch
    \/ EmbedRaises
    \/ EmbedReturn

IngestNext ==
    \/ LoadSources
    \/ LoadPdfRaises
    \/ AbortEmpty
    \/ SplitDocuments
    \/ EmbedFirstBatch
    \/ EmbedEmptyRaises
    \/ EmbedNextBatch
    \/ EmbedRaises
    \/ SaveIndex

-----------------------------------------------------------------------------
(* app/agent.py: the compiled graph; app/nodes.py: the nodes;              *)
(* app/config.py: the lru_cache factories                                  *)

NumRequests == 2
Requests == 1..NumRequests

\* A resource built before the requests under observation.
PreBuilt == NumRequests + 1

\* AgentState of a request plus the locals of the call in progress.
\*   pc         "idle", a node name on entering the node, a position inside
\*              a node, "done" (END reached) or "failed" (exception propagated)
\*   trail      the nodes the graph has started for this request, in order
\*   retriever  the instance get_retriever returned to this request (0: none)
\*   llm        the instance get_llm returned to this request (0: none)
\*   saw_index  what os.path.exists(INDEX_PATH) told this request
NewRequest ==
    [pc |-> "idle", context |-> <<>>, sources |-> <<>>, answer |-> "none",
     err |-> "none", trail |-> <<>>, retriever |-> 0, llm |-> 0,
     saw_index |-> "unchecked", llm_invoked |-> FALSE]

\* workflow.set_entry_point("retrieve")
EntryPoint == "retrieve"

\* workflow.add_edge("retrieve", "generate"); workflow.add_edge("generate", END)
Edges == {<<"retrieve", "generate">>, <<"generate", "END">>}

\* A graph whose retrieve node leads straight to END
NextNodeSkipsGenerate(n) == "END"

\* The node the compiled graph runs after node n returns.
NextNode(n) == CHOOSE m \in {"retrieve", "generate", "END"} : <<n, m>> \in Edges

\* The graph moves request state q to node n, or finishes it at END.
Enter(q, n) ==
    IF n = "END" THEN [q EXCEPT !.pc = "done"]
    ELSE [q EXCEPT !.pc = n, !.trail = Append(@, n)]

\* An exception leaves the node and the graph; the request gets no answer.
Raise(q, e) == [q EXCEPT !.pc = "failed", !.err = e]

\* Documents in the index: metadata source_type and source, and page_content.
Doc1 == [source_type  |-> <<"w", "e", "b", "s", "i", "t", "e">>,
         source       |-> <<"/", "a">>,
         page_content |-> <<"A", "I">>]
Doc2 == [source_type  |-> <<"b", "l", "o", "g">>,
         source       |-> <<"/", "b">>,
         page_content |-> <<" ">>]

\* What retriever.invoke(question) may return (at most RETRIEVER_K documents).
RetrieverResults == {<<>>, <<Doc1>>, <<Doc2>>, <<Doc1, Doc1>>, <<Doc1, Doc2>>}

\* f"[{source_type}: {source_url}]"
Label(doc) == <<"[">> \o doc.source_type \o <<":", " ">> \o doc.source \o <<"]">>

RECURSIVE Dedupe(_)
\* the source_labels list: first occurrences, in order
Dedupe(labels) ==
    IF labels = <<>> THEN <<>>
    ELSE LET front == Dedupe(SubSeq(labels, 1, Len(labels) - 1))
             last  == labels[Len(labels)]
         IN  IF \E k \in 1..Len(front) : front[k] = last THEN front
             ELSE Append(front, last)

\* retrieve_node: the partial state it returns for the retrieved docs.
retrieve_node(docs) ==
    [context |-> Join(<<"\n", "\n", "-", "-", "-", "\n", "\n">>,
                      [k \in 1..Len(docs) |->
                          Label(docs[k]) \o <<"\n">> \o docs[k].page_content]),
     sources |-> Join(<<",", " ">>, Dedupe([k \in 1..Len(docs) |-> Label(docs[k])]))]

\* `not state["context"]`, without the strip()
ContextIsEmptyNoStrip(context) == context = <<>>

\* `not state["context"].strip()`
ContextIsBlank(context) == Strip(context) = <<>>

\* get_retriever that goes on to load_local whether or not the directory exists
IndexCheckNeverRaises(q, exists) == [q EXCEPT !.saw_index = IF exists THEN "present" ELSE "missing"]

\* get_retriever, lines 90-94: raise FileNotFoundError if INDEX_PATH is absent.
IndexCheck(q, exists) ==
    IF ~exists THEN Raise([q EXCEPT !.saw_index = "missing"], "FileNotFoundError")
    ELSE [q EXCEPT !.saw_index = "present"]

\* lru_cache on return of the wrapped function: the result is stored unless
\* another call stored one meanwhile; the caller gets its own result either way.
CacheStore(slot, mine) == IF cache[slot] = 0 THEN [cache EXCEPT ![slot] = mine] ELSE cache

\* `agent_executor = create_agent()` on import of app.agent by app.server.
Startup ==
    /\ ~started
    /\ started' = TRUE
    /\ UNCHANGED <<apiKeySet, cache, built, req, persisted>>
    /\ UNCHANGED <<loadVars, ingestRest>>

\* An offline run_ingestion writes the index directory.
IngestionCompletes ==
    /\ ~persisted.exists
    /\ persisted' = SaveLocal(persisted, ChunksOf(1, 1), 1)
    /\ UNCHANGED <<started, apiKeySet, cache, built, req>>
    /\ UNCHANGED <<loadVars, ingestRest>>

\* The server hands a posted question to agent_executor on a worker thread.
Accept(r) ==
    /\ started
    /\ req[r].pc = "idle"
    /\ req' = [req EXCEPT ![r] = Enter(@, EntryPoint)]
    /\ UNCHANGED <<started, apiKeySet, cache, built, persisted>>
    /\ UNCHANGED <<loadVars, ingestRest>>

\* retrieve_node calls get_retriever(): the lru_cache lookup.
RetrieverLookup(r) ==
    /\ req[r].pc = "retrieve"
    /\ req' = [req EXCEPT ![r] =
                 IF cache.retriever # 0
                 THEN [@ EXCEPT !.pc = "r_invoke", !.retriever = cache.retriever]
                 ELSE [@ EXCEPT !.pc = "r_body"]]
    /\ UNCHANGED <<started, apiKeySet, cache, built, persisted>>
    /\ UNCHANGED <<loadVars, ingestRest>>

\* Body of get_retriever up to the call of get_embeddings() and its lookup.
RetrieverBody(r) ==
    /\ req[r].pc = "r_body"
    /\ LET q == IndexCheck(req[r], persisted.exists)
       IN  req' = [req EXCEPT ![r] =
                     IF q.pc = "failed" THEN q
                     ELSE IF cache.emb # 0 THEN [q EXCEPT !.pc = "r_load"]
                     ELSE [q EXCEPT !.pc = "e_body"]]
    /\ UNCHANGED <<started, apiKeySet, cache, built, persisted>>
    /\ UNCHANGED <<loadVars, ingestRest>>

\* Body of get_embeddings: Config.validate(), then OpenAIEmbeddings(...).
EmbeddingsBody(r) ==
    /\ req[r].pc = "e_body"
    /\ IF ~apiKeySet
       THEN /\ req' = [req EXCEPT ![r] = Raise(@, "EnvironmentError")]
            /\ UNCHANGED <<cache, built>>
       ELSE /\ built' = [built EXCEPT !.emb = @ + 1]
            /\ cache' = CacheStore("emb", r)
            /\ req' = [req EXCEPT ![r].pc = "r_load"]
    /\ UNCHANGED <<started, apiKeySet, persisted>>
    /\ UNCHANGED <<loadVars, ingestRest>>

\* FAISS.load_local(...).as_retriever(...); get_retriever returns.
LoadIndex(r) ==
    /\ req[r].pc = "r_load"
    /\ built' = [built EXCEPT !.retriever = @ + 1]
    /\ cache' = CacheStore("retriever", r)
    /\ req' = [req EXCEPT ![r].pc = "r_invoke", ![r].retriever = r]
    /\ UNCHANGED <<started, apiKeySet, persisted>>
    /\ UNCHANGED <<loadVars, ingestRest>>

\* retriever.invoke(question), the context is built, retrieve_node returns.
RetrieverInvoke(r) ==
    /\ req[r].pc = "r_invoke"
    /\ \E docs \in RetrieverResults :
          req' = [req EXCEPT ![r] =
                    Enter([@ EXCEPT !.context = retrieve_node(docs).context,
                                    !.sources = retrieve_node(docs).sources],
                          NextNode("retrieve"))]
    /\ UNCHANGED <<started, apiKeySet, cache, built, persisted>>
    /\ UNCHANGED <<loadVars, ingestRest>>

\* generate_node: the empty-context test, then the lookup of get_llm().
GenerateCheck(r) ==
    /\ req[r].pc = "generate"
    /\ req' = [req EXCEPT ![r] =
                 IF ContextIsBlank(@.context)
                 THEN Enter([@ EXCEPT !.answer = "fallback"], NextNode("generate"))
                 ELSE IF cache.llm # 0
                 THEN [@ EXCEPT !.pc = "g_invoke", !.llm = cache.llm]
                 ELSE [@ EXCEPT !.pc = "l_body"]]
    /\ UNCHANGED <<started, apiKeySet, cache, built, persisted>>
    /\ UNCHANGED <<loadVars, ingestRest>>

\* Body of get_llm: Config.validate(), then ChatOpenAI(...).
LlmBody(r) ==
    /\ req[r].pc = "l_body"
    /\ IF ~apiKeySet
       THEN /\ req' = [req EXCEPT ![r] = Raise(@, "EnvironmentError")]
            /\ UNCHANGED <<cache, built>>
       ELSE /\ built' = [built EXCEPT !.llm = @ + 1]
            /\ cache' = CacheStore("llm", r)
            /\ req' = [req EXCEPT ![r].pc = "g_invoke", ![r].llm = r]
    /\ UNCHANGED <<started, apiKeySet, persisted>>
    /\ UNCHANGED <<loadVars, ingestRest>>

\* llm.invoke(messages); generate_node returns the model's answer.
LlmInvoke(r) ==
    /\ req[r].pc = "g_invoke"
    /\ req' = [req EXCEPT ![r] =
                 Enter([@ EXCEPT !.answer = "llm", !.llm_invoked = TRUE],
                       NextNode("generate"))]
    /\ UNCHANGED <<started, apiKeySet, cache, built, persisted>>
    /\ UNCHANGED <<loadVars, ingestRest>>

ServeNext ==
    \/ Startup
    \/ IngestionCompletes
    \/ \E r \in Requests : Accept(r)
    \/ \E r \in Requests : RetrieverLookup(r)
    \/ \E r \in Requests : RetrieverBody(r)
    \/ \E r \in Requests : EmbeddingsBody(r)
    \/ \E r \in Requests : LoadIndex(r)
    \/ \E r \in Requests : RetrieverInvoke(r)
    \/ \E r \in Requests : GenerateCheck(r)
    \/ \E r \in Requests : LlmBody(r)
    \/ \E r \in Requests : LlmInvoke(r)

-----------------------------------------------------------------------------
(* generate_node called on an arbitrary AgentState *)

MaxContextLen == 3

\* Characters a context is drawn from: three kinds of whitespace and a letter.
ContextChars == {" ", "\n", "\t", "x"}

GenerateNext ==
    \/ \E r \in Requests : GenerateCheck(r)
    \/ \E r \in Requests : LlmBody(r)
    \/ \E r \in Requests : LlmInvoke(r)

-----------------------------------------------------------------------------
(* Specifications *)

\* Before _load_sitemap(sitemap_url, source_type) is called.
LoadInit ==
    /\ lpc = "start"
    /\ sitemapLocs \in SeqsUpTo(UrlPool, MaxUrls)
    /\ source_type \in {"website", "blog"}
    /\ urls = <<>>
    /\ li = 1
    /\ cleaned = <<>>
    /\ log = <<>>
    \* run_ingestion and the serving process are not part of this run
    /\ ipc = "idle"
    /\ run = 0
    /\ all_docs = 0
    /\ chunks = <<>>
    /\ batch_size = _EMBED_BATCH_SIZE
    /\ bi = 0
    /\ vector_store = <<>>
    /\ embedded = <<>>
    /\ outcome = "none"
    /\ errorLogged = FALSE
    /\ persisted = NoIndex
    /\ started = FALSE
    /\ apiKeySet = TRUE
    /\ cache = [llm |-> 0, emb |-> 0, retriever |-> 0]
    /\ built = [llm |-> 0, emb |-> 0, retriever |-> 0]
    /\ req = [r \in Requests |-> NewRequest]

\* Before the first run_ingestion of an empty INDEX_PATH.
IngestInit ==
    /\ ipc = "idle"
    /\ run = 0
    /\ all_docs = 0
    /\ chunks = <<>>
    /\ batch_size = _EMBED_BATCH_SIZE
    /\ bi = 0
    /\ vector_store = <<>>
    /\ embedded = <<>>
    /\ persisted = NoIndex
    /\ outcome = "none"
    /\ errorLogged = FALSE
    \* _load_sitemap is abstracted by DocCounts; no serving process
    /\ lpc = "done"
    /\ sitemapLocs = <<>>
    /\ source_type = "website"
    /\ urls = <<>>
    /\ li = 1
    /\ cleaned = <<>>
    /\ log = <<>>
    /\ started = FALSE
    /\ apiKeySet = TRUE
    /\ cache = [llm |-> 0, emb |-> 0, retriever |-> 0]
    /\ built = [llm |-> 0, emb |-> 0, retriever |-> 0]
    /\ req = [r \in Requests |-> NewRequest]

\* The server process before app.agent is imported.
ServeInit ==
    /\ started = FALSE
    /\ apiKeySet \in BOOLEAN
    /\ persisted \in {NoIndex, SaveLocal(NoIndex, ChunksOf(1, 1), 1)}
    /\ cache = [llm |-> 0, emb |-> 0, retriever |-> 0]
    /\ built = [llm |-> 0, emb |-> 0, retriever |-> 0]
    /\ req = [r \in Requests |-> NewRequest]
    \* ingestion is offline: only the index directory is shared with it
    /\ lpc = "done"
    /\ sitemapLocs = <<>>
    /\ source_type = "website"
    /\ urls = <<>>
    /\ li = 1
    /\ cleaned = <<>>
    /\ log = <<>>
    /\ ipc = "idle"
    /\ run = 0
    /\ all_docs = 0
    /\ chunks = <<>>
    /\ batch_size = _EMBED_BATCH_SIZE
    /\ bi = 0
    /\ vector_store = <<>>
    /\ embedded = <<>>
    /\ outcome = "none"
    /\ errorLogged = FALSE

\* generate_node is about to run on a state with any context; get_llm may
\* have been called before.
GenerateInit ==
    /\ started = TRUE
    /\ apiKeySet \in BOOLEAN
    /\ persisted = NoIndex
    /\ \E pre \in {0, PreBuilt} :
          /\ cache = [llm |-> pre, emb |-> 0, retriever |-> 0]
          /\ built = [llm |-> IF pre = 0 THEN 0 ELSE 1, emb |-> 0, retriever |-> 0]
    /\ \E context \in SeqsUpTo(ContextChars, MaxContextLen) :
          req = [r \in Requests |->
                    IF r = 1
                    THEN Enter([NewRequest EXCEPT !.context = context], "generate")
                    ELSE NewRequest]
    /\ lpc = "done"
    /\ sitemapLocs = <<>>
    /\ source_type = "website"
    /\ urls = <<>>
    /\ li = 1
    /\ cleaned = <<>>
    /\ log = <<>>
    /\ ipc = "idle"
    /\ run = 0
    /\ all_docs = 0
    /\ chunks = <<>>
    /\ batch_size = _EMBED_BATCH_SIZE
    /\ bi = 0
    /\ vector_store = <<>>
    /\ embedded = <<>>
    /\ outcome = "none"
    /\ errorLogged = FALSE

MaxChunks == 7
MaxBatchSize == 4

\* _embed_in_batches is about to run on a list of 0..MaxChunks chunks with a
\* batch_size of 1..MaxBatchSize.
EmbedInit ==
    /\ ipc = "embed"
    /\ run = 1
    /\ all_docs = 1
    /\ \E n \in 0..MaxChunks : chunks = ChunksOf(1, n)
    /\ batch_size \in 1..MaxBatchSize
    /\ bi = 0
    /\ vector_store = <<>>
    /\ embedded = <<>>
    /\ persisted = NoIndex
    /\ outcome = "running"
    /\ errorLogged = FALSE
    /\ lpc = "done"
    /\ sitemapLocs = <<>>
    /\ source_type = "website"
    /\ urls = <<>>
    /\ li = 1
    /\ cleaned = <<>>
    /\ log = <<>>
    /\ started = FALSE
    /\ apiKeySet = TRUE
    /\ cache = [llm |-> 0, emb |-> 0, retriever |-> 0]
    /\ built = [llm |-> 0, emb |-> 0, retriever |-> 0]
    /\ req = [r \in Requests |-> NewRequest]

\* The serving process under concurrent requests.
Spec == ServeInit /\ [][ServeNext]_vars

\* generate_node on any context.
SpecGenerate == GenerateInit /\ [][GenerateNext]_vars

\* One call of _load_sitemap.
SpecLoad == LoadInit /\ [][LoadNext]_vars

\* A sequence of run_ingestion calls.
SpecIngest == IngestInit /\ [][IngestNext]_vars

\* One call of _embed_in_batches.
SpecEmbed == EmbedInit /\ [][EmbedNext]_vars

-----------------------------------------------------------------------------
(* Properties *)

Range(f) == {f[k] : k \in DOMAIN f}

\* The graph has started node n for request state q.
HasRun(q, n) == n \in Range(q.trail)

\* A string that is empty or holds whitespace only.
IsBlank(c) == \A k \in 1..Len(c) : c[k] \in Whitespace

\* C1: once generate_node has made its test on a blank context (empty or
\* whitespace only) the request ends with the fixed fallback answer and
\* get_llm / llm.invoke are never reached; and whenever get_llm or llm.invoke
\* has been reached, the context is not blank.
C1_BlankContextGetsFallback ==
    \A r \in Requests :
        LET q == req[r]
        IN  (HasRun(q, "generate") /\ q.pc # "generate") =>
               /\ IsBlank(q.context) =>
                     /\ q.pc = "done"
                     /\ q.answer = "fallback"
                     /\ q.err = "none"
                     /\ ~q.llm_invoked
                     /\ q.llm = 0
               /\ (q.llm_invoked \/ q.llm # 0 \/ q.pc \in {"l_body", "g_invoke"}
                   \/ q.answer = "llm") => ~IsBlank(q.context)

\* C1 witness: a whitespace-only, non-empty context was answered by the fallback.
C1_Witness ==
    \E r \in Requests :
        /\ req[r].pc = "done"
        /\ req[r].context # <<>>
        /\ IsBlank(req[r].context)
        /\ req[r].answer = "fallback"

\* C2 as stated: every request that has ended ran retrieve once and then
\* generate once.
C2_EveryRequestRunsBothNodes ==
    \A r \in Requests :
        req[r].pc \in {"done", "failed"} => req[r].trail = <<"retrieve", "generate">>

\* C2 amended: a request runs retrieve first and once; when retrieve returns
\* (also with zero chunks) generate runs next and once, then the request ends;
\* when retrieve raises, the request ends with that exception, without generate
\* and without an answer. No node runs twice; generate never runs before
\* retrieve has returned.
C2_RetrieveThenGenerate ==
    \A r \in Requests :
        LET q == req[r]
        IN  /\ q.trail \in {<<>>, <<"retrieve">>, <<"retrieve", "generate">>}
            /\ q.trail = <<>> <=> q.pc = "idle"
            /\ q.trail = <<"retrieve">> =>
                  /\ q.pc \in {"retrieve", "r_body", "e_body", "r_load", "r_invoke", "failed"}
                  /\ q.answer = "none"
                  /\ q.pc = "failed" => q.err # "none"
            /\ q.pc = "done" =>
                  /\ q.trail = <<"retrieve", "generate">>
                  /\ q.answer # "none"
            /\ q.pc \in {"generate", "l_body", "g_invoke"} =>
                  q.trail = <<"retrieve", "generate">>

\* C2 witness: retrieval returned zero chunks and generate still ran, once.
C2_Witness ==
    \E r \in Requests :
        /\ req[r].pc = "done"
        /\ req[r].context = <<>>
        /\ req[r].retriever # 0
        /\ req[r].trail = <<"retrieve", "generate">>

\* The path of a URL: what precedes its first "?" or "#".
PathOf(url) ==
    IF \E k \in 1..Len(url) : url[k] \in {"?", "#"}
    THEN SubSeq(url, 1, (CHOOSE k \in 1..Len(url) :
                            url[k] \in {"?", "#"} /\ \A j \in 1..(k - 1) : url[j] \notin {"?", "#"}) - 1)
    ELSE url

\* The path ends in a static-asset extension, whatever the case of its letters.
HasStaticExtension(url) ==
    \E ext \in _STATIC_EXTENSIONS : EndsWith(Lower(PathOf(url)), ext)

\* The URLs of the pool with such a path, and those holding a skip pattern.
StaticUrls == {u \in UrlPool : HasStaticExtension(u)}
PatternUrls == {u \in UrlPool : \E p \in SKIP_URL_PATTERNS : Contains(u, p)}

\* The static URLs written with an upper-case letter, a query or a fragment.
DisguisedStaticUrls ==
    {u \in StaticUrls : Lower(u) # u \/ Contains(u, <<"?">>) \/ Contains(u, <<"#">>)}

\* C3: a sitemap entry whose path (query string and fragment removed, compared
\* case-insensitively) ends in a static-asset extension is never fetched by
\* _load_sitemap and no Document of the corpus has it as source.
C3_StaticAssetsNeverFetched ==
    \A j \in 1..Len(log) :
        urls[j] \in StaticUrls =>
            /\ log[j].gets = 0
            /\ \A k \in 1..Len(cleaned) : cleaned[k].source # urls[j]

\* C3 witness: a run has finished that met a static asset written with an
\* upper-case extension, a query string or a fragment, and fetched another URL.
C3_Witness ==
    /\ lpc = "done"
    /\ \E j \in 1..Len(log) : urls[j] \in DisguisedStaticUrls
    /\ \E j \in 1..Len(log) : log[j].gets = 1
    /\ cleaned # <<>>

\* The media type of a Content-Type value is text/html.
HtmlTypes == {c \in ContentTypes : Lower(Strip(SplitFirst(c, ";"))) = TextHtml}
IsHtml(ctype) == ctype \in HtmlTypes

\* The page fetched for entry j came back as HTML with enough cleaned text.
Keeps(j) ==
    /\ log[j].gets = 1
    /\ log[j].resp.ok
    /\ IsHtml(log[j].resp.ctype)
    /\ log[j].resp.parsed >= _MIN_TEXT_LENGTH

RECURSIVE KeptDocuments(_)
\* The Documents of the entries 1..n that Keeps, in sitemap order.
KeptDocuments(n) ==
    IF n = 0 THEN <<>>
    ELSE IF Keeps(n)
    THEN Append(KeptDocuments(n - 1),
                [source |-> urls[n], source_type |-> source_type,
                 title |-> IF urls[n][Len(urls[n])] = "/" THEN Home
                           ELSE SplitLast(urls[n], "/"),
                 length |-> log[n].resp.parsed])
    ELSE KeptDocuments(n - 1)

RemoveAt(s, j) == SubSeq(s, 1, j - 1) \o SubSeq(s, j + 1, Len(s))

\* s without the elements at the positions where us holds u.
RemoveUrl(s, us, u) ==
    LET keep == {j \in 1..Len(us) : us[j] # u}
        F[n \in 0..Len(us)] ==
            IF n = 0 THEN <<>>
            ELSE IF n \in keep THEN Append(F[n - 1], s[n]) ELSE F[n - 1]
    IN  F[Len(us)]

RECURSIVE RunOn(_, _)
\* The corpus of a run over the entries us that sees the responses rs.
RunOn(us, rs) ==
    IF us = <<>> THEN <<>>
    ELSE LoopBody(RunOn(SubSeq(us, 1, Len(us) - 1), SubSeq(rs, 1, Len(rs) - 1)),
                  us[Len(us)], rs[Len(rs)], source_type)

\* The entries visited so far and the responses they saw.
Visited == SubSeq(urls, 1, Len(log))
Seen == [j \in 1..Len(log) |-> log[j].resp]

\* The fetch of entry j failed (network, timeout, HTTP status).
FetchFailed(j) == log[j].gets > 0 /\ ~log[j].resp.ok

\* C5 as stated: no URL is fetched twice in a run; a URL whose fetch failed
\* has no Document; the corpus is that of the run without this URL in the
\* sitemap.
C5_EachUrlFetchedAtMostOnce ==
    /\ \A u \in UrlPool :
          Cardinality({j \in 1..Len(log) : urls[j] = u /\ log[j].gets > 0}) <= 1
    /\ \A j \in 1..Len(log) :
          FetchFailed(j) =>
              /\ \A k \in 1..Len(cleaned) : cleaned[k].source # urls[j]
              /\ cleaned = RunOn(RemoveUrl(Visited, Visited, urls[j]),
                                 RemoveUrl(Seen, Visited, urls[j]))

\* C5 amended: each sitemap entry that is not filtered is fetched exactly
\* once and a filtered one never (a URL listed twice is fetched for each
\* listing); a failed fetch returns empty text and is not repeated, every later
\* entry is still visited, and the corpus is that of the run without the
\* failing entry in the sitemap.
C5_FailedFetchOnlyDropsItsEntry ==
    /\ \A j \in 1..Len(log) :
          /\ log[j].gets = IF urls[j] \in StaticUrls \cup PatternUrls THEN 0 ELSE 1
          /\ FetchFailed(j) =>
                /\ log[j].text = 0
                /\ cleaned = RunOn(RemoveAt(Visited, j), RemoveAt(Seen, j))
    /\ Len(log) = li - 1
    /\ lpc = "done" => Len(log) = Len(urls)

\* C5 witness: the first fetch of a finished run failed and the entry after
\* it was fetched and loaded.
C5_Witness ==
    /\ lpc = "done"
    /\ Len(urls) >= 2
    /\ FetchFailed(1)
    /\ log[2].gets = 1
    /\ Len(cleaned) = 1
    /\ cleaned[1].source = urls[2]

\* The current run_ingestion call has ended after loading zero Documents
\* (the PDF was there: _load_pdf did not raise).
EndedWithNoDocuments ==
    /\ ipc = "idle"
    /\ run > 0
    /\ all_docs = 0
    /\ outcome # "FileNotFoundError"

\* C6 as stated: a run that loaded zero Documents ends in an error outcome,
\* embeds nothing and persists no index.
C6_NoDocumentsIsAnError ==
    EndedWithNoDocuments =>
        /\ outcome \in IngestErrors
        /\ embedded = <<>>
        /\ persisted.writer # run

\* C6 amended: a run that loaded zero Documents logs an error and returns
\* normally (no exception leaves run_ingestion); it embeds nothing and leaves
\* the index directory as it found it.
C6_NoDocumentsLogsAndReturns ==
    EndedWithNoDocuments =>
        /\ outcome = "returned"
        /\ errorLogged
        /\ chunks = <<>>
        /\ embedded = <<>>
        /\ vector_store = <<>>
        /\ persisted.writer # run

\* C6 witness: the second run loaded nothing and returned; the index of the
\* first run is still there.
C6_Witness ==
    /\ EndedWithNoDocuments
    /\ errorLogged
    /\ run = 2
    /\ persisted.exists
    /\ persisted.writer = 1

\* C7 as stated: the index is loaded at most once and the model client and
\* the embedding client are built at most once per process, and every request
\* that got a retriever or a model client got the same one.
C7_ResourcesBuiltAtMostOnce ==
    /\ built.retriever <= 1
    /\ built.emb <= 1
    /\ built.llm <= 1
    /\ \A r1, r2 \in Requests :
          /\ (req[r1].retriever # 0 /\ req[r2].retriever # 0) =>
                req[r1].retriever = req[r2].retriever
          /\ (req[r1].llm # 0 /\ req[r2].llm # 0) => req[r1].llm = req[r2].llm

\* C8 as stated: in a process started without OPENAI_API_KEY no request
\* enters the retrieve or generate step and none gets an answer.
C8_MissingKeyStopsStartup ==
    ~apiKeySet =>
        \A r \in Requests : req[r].trail = <<>> /\ req[r].answer = "none"

\* C9: a request whose get_retriever call found no index directory fails with
\* FileNotFoundError in the retrieve step: generate does not run for it, it
\* gets neither the fallback nor a model answer, it holds no retriever and no
\* retriever of its making is in the cache.
C9_MissingIndexFailsRetrieve ==
    \A r \in Requests :
        req[r].saw_index = "missing" =>
            /\ req[r].pc = "failed"
            /\ req[r].err = "FileNotFoundError"
            /\ req[r].trail = <<"retrieve">>
            /\ req[r].answer = "none"
            /\ req[r].retriever = 0
            /\ cache.retriever # r

\* C9 witness: one request failed on the missing directory while the cache
\* was empty, and a later one, after ingestion, loaded the index and was
\* answered.
C9_Witness ==
    \E r1, r2 \in Requests :
        /\ req[r1].saw_index = "missing"
        /\ req[r1].pc = "failed"
        /\ req[r2].saw_index = "present"
        /\ req[r2].pc = "done"
        /\ cache.retriever = r2

\* C10: the index directory holds the vectors of the chunks of one run only,
\* the last one that saved, each once and in order; right after a run has
\* saved, these are exactly the chunks of that run.
C10_IndexHoldsLastRunOnly ==
    /\ persisted.exists =>
          /\ persisted.writer \in 1..run
          /\ persisted.vectors = ChunksOf(persisted.writer, Len(persisted.vectors))
    /\ outcome = "saved" =>
          /\ persisted.exists
          /\ persisted.writer = run
          /\ persisted.vectors = chunks
    /\ (run > 0 /\ outcome # "saved") => persisted.writer < run

\* C10 witness: a second run has saved an index of more than two batches.
C10_Witness ==
    /\ run = 2
    /\ outcome = "saved"
    /\ Len(chunks) > 2 * _EMBED_BATCH_SIZE
    /\ persisted.vectors = ChunksOf(2, Len(chunks))

\* The call of _embed_in_batches has ended, and not by a failure of the
\* embedding API.
EmbedEnded == ipc = "idle" /\ outcome \notin {"running", "EmbeddingError"}

\* C11 as stated: for every chunk list, the empty one included, and every
\* batch_size >= 1, _embed_in_batches returns an index that holds one vector
\* per chunk, each chunk embedded exactly once and in order, in batches of at
\* most batch_size.
C11_EveryListIsEmbeddedOnce ==
    /\ ipc = "loop" =>
          /\ bi >= batch_size
          /\ bi % batch_size = 0
          /\ embedded = SubSeq(chunks, 1, IF bi < Len(chunks) THEN bi ELSE Len(chunks))
          /\ vector_store = embedded
    /\ EmbedEnded =>
          /\ outcome = "embedded"
          /\ embedded = chunks
          /\ vector_store = chunks

\* C11 for a non-empty list: after k batches the index holds the first
\* k * batch_size chunks (all of them when fewer are left), each once and in
\* order, and on return it holds exactly the chunks; the call on an empty
\* list ends with IndexError and returns no index.
C11_NonEmptyListIsEmbeddedOnce ==
    /\ ipc = "loop" =>
          /\ bi >= batch_size
          /\ bi % batch_size = 0
          /\ embedded = SubSeq(chunks, 1, IF bi < Len(chunks) THEN bi ELSE Len(chunks))
          /\ vector_store = embedded
    /\ (EmbedEnded /\ chunks # <<>>) =>
          /\ outcome = "embedded"
          /\ embedded = chunks
          /\ vector_store = chunks
    /\ (EmbedEnded /\ chunks = <<>>) =>
          /\ outcome = "IndexError"
          /\ vector_store = <<>>

\* A call on a chunk count that is an exact multiple of batch_size, above one
\* batch, has returned.
C11_ReturnedOnExactMultiple ==
    /\ outcome = "embedded"
    /\ Len(chunks) = 2 * batch_size
    /\ batch_size > 1
    /\ vector_store = chunks

====
